---- MODULE Spec2Model ----
(***************************************************************************)
(* The search-input parser of src/src/Search.tsx (function parse, lines    *)
(* 90-339) as a state machine: one step per iteration of the scan loop     *)
(* and one step for the end-of-input handling.  raised and quoteStart are  *)
(* history variables: they record what the code did and steer nothing.    *)
(*                                                                         *)
(* A JavaScript string is modelled as a sequence of one-character strings, *)
(* so "ab" is <<"a", "b">> and the empty string is <<>>.                   *)
(***************************************************************************)
EXTENDS Integers, Sequences, FiniteSets, TLC

VARIABLES
    str,               \* parse's argument str
    config,            \* parse's argument config (the schema, in order)
    options,           \* name -> option, built from config (lines 97-102)
    tokens,            \* the token list
    result,            \* [text |-> ..., options |-> ...]
    error,             \* null or [position |-> ..., text |-> ...]
    currentTokenText,
    currentValue,
    inQuotes,
    escaped,
    inOptionValue,
    currentOption,     \* null or an option of the schema
    i,                 \* the loop index, zero-based as in the source
    pc,                \* "scan" | "done" | "thrown", "idle" outside parse
    raised,            \* history: every call of parseError, in order
    quoteStart,        \* history: the index of the quote that opened quoting
    \* the Search component (lines 396-642)
    props,             \* which of onChange and onError the caller provided
    textContent,       \* the text of the contentEditable span
    installed,         \* handleInput is installed as the 'input' listener
    autocomplete,      \* the autocomplete state: null or entries, token, ...
    pending,           \* the handlings awaiting their provider's promise
    typed,             \* the number of edits made so far
    caret,             \* the selection suggestionSelect has set, else null
    orphaned,          \* a handleInput of an earlier render is installed
    handled,           \* history: the most recent handling that ended
    newest             \* history: how far the most recently started
                       \* handling has come

parseLocals == <<str, config, options, tokens, result, error,
                 currentTokenText, currentValue, inQuotes, escaped,
                 inOptionValue, currentOption, i, raised, quoteStart>>

parseVars == <<parseLocals, pc>>

inputVars == <<props, textContent, installed, autocomplete, pending, typed,
               caret, orphaned, handled, newest>>

vars == <<parseVars, inputVars>>

-----------------------------------------------------------------------------
(* Values                                                                  *)

null == [null |-> TRUE]

\* The token types (lines 31-41), named by their Symbol descriptions.
Space == "space"
Text == "text"
Numeric == "number"
Enum == "enum"
OptionName == "option name"
InvalidOptionName == "invalid option name"
EscapeSequence == "escape sequence"
InvalidEscapeSequence == "invalid escape sequence"
MissingQuote == "missing quote"
MissingOptionValue == "missing option value"
Invalid == "invalid"

TokenType == {Space, Text, Numeric, Enum, OptionName, InvalidOptionName,
              EscapeSequence, InvalidEscapeSequence, MissingQuote,
              MissingOptionValue, Invalid}

\* Token.suggest is "none", "options" or an option; the two literals are
\* wrapped in records so that they compare with option records.
SuggestNone == [suggest |-> "none"]
SuggestOptions == [suggest |-> "options"]

\* JavaScript values stored in result.options, tagged by their type.
JSBoolean(b) == [boolean |-> b]
JSString(s) == [string |-> s]
JSNumber(n) == [number |-> n]

\* escapeSequences (lines 84-88)
escapeSequences == ("n" :> "\n") @@ ("\"" :> "\"") @@ ("\\" :> "\\")

\* String.fromCharCode(160) (line 456), the non-breaking space; a character
\* of the model is a string, and this one stands for U+00A0.
NBSP == "nbsp"

\* /\s/.test(c): the whitespace characters of the model's alphabet
\* (newline only arises from a decoded escape).
IsWhitespace(c) == c \in {" ", "\t", "\n", NBSP}

-----------------------------------------------------------------------------
(* Number(currentValue) and isNaN (lines 142-143).  StringToNumber strips  *)
(* leading and trailing whitespace, maps the empty string to 0 and a run   *)
(* of decimal digits to its value; every other value the inputs below can  *)
(* give a number option (letters, quote, backslash, colon, whitespace      *)
(* between other characters) is NaN.  Signs, fractions, exponents, radix   *)
(* prefixes and Infinity need characters those inputs do not have.         *)

DigitValue == ("0" :> 0) @@ ("1" :> 1) @@ ("2" :> 2) @@ ("3" :> 3) @@ ("4" :> 4)
              @@ ("5" :> 5) @@ ("6" :> 6) @@ ("7" :> 7) @@ ("8" :> 8) @@ ("9" :> 9)

\* NaN is represented by a value no digit string denotes.
NaN == -1

RECURSIVE TrimStart(_)
TrimStart(s) ==
    IF s # <<>> /\ IsWhitespace(Head(s)) THEN TrimStart(Tail(s)) ELSE s

RECURSIVE TrimEnd(_)
TrimEnd(s) ==
    IF s # <<>> /\ IsWhitespace(s[Len(s)])
    THEN TrimEnd(SubSeq(s, 1, Len(s) - 1))
    ELSE s

RECURSIVE DecimalValue(_)
DecimalValue(s) ==
    IF s = <<>> THEN 0
    ELSE 10 * DecimalValue(SubSeq(s, 1, Len(s) - 1)) + DigitValue[s[Len(s)]]

Number(s) ==
    LET t == TrimEnd(TrimStart(s))
    IN  IF t = <<>> THEN 0
        ELSE IF \A k \in 1..Len(t) : t[k] \in DOMAIN DigitValue
             THEN DecimalValue(t)
             ELSE NaN

isNaN(n) == n = NaN

-----------------------------------------------------------------------------
(* The closure state of parse, as one record, and its helper functions.    *)
(* thrown records an exception leaving parse.                              *)

state ==
    [tokens |-> tokens, result |-> result, error |-> error,
     currentTokenText |-> currentTokenText, currentValue |-> currentValue,
     inQuotes |-> inQuotes, escaped |-> escaped,
     inOptionValue |-> inOptionValue, currentOption |-> currentOption,
     thrown |-> FALSE, raised |-> raised]

\* A completeToken that offers option names for no token.
completeToken_NeverOffersOptions(s, type) ==
    LET suggest == IF s.inOptionValue \/ type = MissingOptionValue
                   THEN s.currentOption
                   ELSE SuggestNone
    IN  [s EXCEPT
            !.tokens = Append(@, [type |-> type, content |-> s.currentTokenText,
                                  suggest |-> suggest]),
            !.currentTokenText = <<>>]

\* completeToken (lines 175-190)
completeToken(s, type) ==
    LET suggest ==
            IF s.inOptionValue \/ type = MissingOptionValue
            THEN s.currentOption
            ELSE IF type = Text \/ type = Space
                 THEN SuggestOptions
                 ELSE SuggestNone
    IN  [s EXCEPT
            !.tokens = Append(@, [type |-> type,
                                  content |-> s.currentTokenText,
                                  suggest |-> suggest]),
            !.currentTokenText = <<>>]

\* A parseError that keeps the last error instead of the first.
parseError_LastWins(s, position, text) ==
    LET call == [position |-> position, text |-> text]
    IN  [s EXCEPT !.raised = Append(@, call), !.error = call]

\* parseError (lines 193-197); every call is also noted in raised.
parseError(s, position, text) ==
    LET call == [position |-> position, text |-> text]
        s1 == [s EXCEPT !.raised = Append(@, call)]
    IN  IF s1.error = null
        THEN [s1 EXCEPT !.error = call]
        ELSE s1

\* A coercion that takes every Boolean value other than "yes" for false.
coerce_BooleanDefaultsToFalse(option, value) ==
    CASE option.type = "boolean" ->
            [value |-> JSBoolean(value = <<"y", "e", "s">>),
             invalidValue |-> FALSE, token |-> Enum]
      [] option.type = "string" ->
            [value |-> JSString(value), invalidValue |-> FALSE, token |-> Text]
      [] option.type = "number" ->
            IF isNaN(Number(value))
            THEN [value |-> JSNumber(NaN), invalidValue |-> TRUE, token |-> Invalid]
            ELSE [value |-> JSNumber(Number(value)), invalidValue |-> FALSE,
                  token |-> Numeric]
      [] option.type = "enum" ->
            IF \E k \in 1..Len(option.options) : option.options[k] = value
            THEN [value |-> JSString(value), invalidValue |-> FALSE, token |-> Enum]
            ELSE [value |-> null, invalidValue |-> TRUE, token |-> Invalid]

\* The switch on currentOption.type (lines 124-158): the value, whether it is
\* invalid, and the type of the token completed.
coerce(option, value) ==
    CASE option.type = "boolean" ->
            IF value = <<"y", "e", "s">>
            THEN [value |-> JSBoolean(TRUE), invalidValue |-> FALSE, token |-> Enum]
            ELSE IF value = <<"n", "o">>
            THEN [value |-> JSBoolean(FALSE), invalidValue |-> FALSE, token |-> Enum]
            ELSE [value |-> null, invalidValue |-> TRUE, token |-> Invalid]
      [] option.type = "string" ->
            [value |-> JSString(value), invalidValue |-> FALSE, token |-> Text]
      [] option.type = "number" ->
            IF isNaN(Number(value))
            THEN [value |-> JSNumber(NaN), invalidValue |-> TRUE, token |-> Invalid]
            ELSE [value |-> JSNumber(Number(value)), invalidValue |-> FALSE,
                  token |-> Numeric]
      [] option.type = "enum" ->
            IF \E k \in 1..Len(option.options) : option.options[k] = value
            THEN [value |-> JSString(value), invalidValue |-> FALSE, token |-> Enum]
            ELSE [value |-> null, invalidValue |-> TRUE, token |-> Invalid]

\* A store that puts a new value of a multiple option in front.
store_Prepends(resultOptions, option, value) ==
    IF option.multiple
    THEN IF option.name \notin DOMAIN resultOptions
         THEN resultOptions @@ (option.name :> [values |-> <<value>>])
         ELSE [resultOptions EXCEPT
                  ![option.name] = [values |-> <<value>> \o @.values]]
    ELSE IF option.name \in DOMAIN resultOptions
         THEN [resultOptions EXCEPT ![option.name] = [value |-> value]]
         ELSE resultOptions @@ (option.name :> [value |-> value])

\* A store that ignores multiple and always keeps a single value.
store_AlwaysSingle(resultOptions, option, value) ==
    IF option.name \in DOMAIN resultOptions
    THEN [resultOptions EXCEPT ![option.name] = [value |-> value]]
    ELSE resultOptions @@ (option.name :> [value |-> value])

\* Lines 160-169: storing an accepted value in result.options.
store(resultOptions, option, value) ==
    IF option.multiple
    THEN IF option.name \notin DOMAIN resultOptions
         THEN resultOptions @@ (option.name :> [values |-> <<value>>])
         ELSE [resultOptions EXCEPT
                  ![option.name] = [values |-> Append(@.values, value)]]
    ELSE IF option.name \in DOMAIN resultOptions
         THEN [resultOptions EXCEPT ![option.name] = [value |-> value]]
         ELSE resultOptions @@ (option.name :> [value |-> value])

\* completeOptionValue (lines 114-173).  It throws when currentOption is
\* null (line 116), and the push of line 165 throws a TypeError when the
\* stored entry has no values array.
completeOptionValue(s) ==
    IF s.currentOption = null
    THEN [s EXCEPT !.thrown = TRUE]
    ELSE LET option == s.currentOption
             c == coerce(option, s.currentValue)
             s1 == IF Len(s.currentValue) = 0
                   THEN completeToken(s, MissingOptionValue)
                   ELSE LET t == [completeToken(s, c.token) EXCEPT
                                     !.currentValue = <<>>]
                        IN  IF c.invalidValue
                            THEN t
                            ELSE IF /\ option.multiple
                                    /\ option.name \in DOMAIN t.result.options
                                    /\ "values" \notin
                                         DOMAIN t.result.options[option.name]
                                 THEN [t EXCEPT !.thrown = TRUE]
                                 ELSE [t EXCEPT !.result.options =
                                          store(@, option, c.value)]
         IN  IF s1.thrown
             THEN s1
             ELSE [s1 EXCEPT !.currentOption = null, !.inOptionValue = FALSE]

\* completeOptionValue() followed by currentTokenText = text and
\* completeToken(type) (lines 241-243, 246-248, 251-253, 256-258); the two
\* statements run only when the call returned.
completeOptionValueThen(s, text, type) ==
    LET s1 == completeOptionValue(s)
    IN  IF s1.thrown
        THEN s1
        ELSE completeToken([s1 EXCEPT !.currentTokenText = text], type)

-----------------------------------------------------------------------------
(* The body of the scan loop (lines 199-313), one operator per mode.  Each *)
(* takes the closure state s, the index i and the character c = str[i].    *)

\* Lines 202-212: the character after a backslash inside quotes.
scanEscaped(s, pos, c) ==
    LET s1 == [s EXCEPT !.currentTokenText = Append(@, c)]
        s2 == IF c \in DOMAIN escapeSequences
              THEN completeToken(
                       [s1 EXCEPT !.currentValue = Append(@, escapeSequences[c])],
                       EscapeSequence)
              ELSE completeToken(parseError(s1, pos, "invalid escape sequence"),
                                 InvalidEscapeSequence)
    IN  [s2 EXCEPT !.currentTokenText = <<>>, !.escaped = FALSE]

\* Lines 213-232: a character inside quotes, not escaped.
scanQuoted(s, pos, c) ==
    IF c = "\""
    THEN LET s1 == [s EXCEPT !.currentTokenText = Append(@, "\"")]
         IN  IF s1.inOptionValue
             THEN LET s2 == completeOptionValue(s1)
                  IN  IF s2.thrown THEN s2 ELSE [s2 EXCEPT !.inQuotes = FALSE]
             ELSE LET s2 == completeToken(s1, Text)
                  IN  [s2 EXCEPT
                          !.result.text = Append(@, s2.currentValue),
                          !.currentValue = <<>>,
                          !.inQuotes = FALSE]
    ELSE IF c = "\\"
    THEN [completeToken(s, Text) EXCEPT
             !.currentTokenText = <<"\\">>, !.escaped = TRUE]
    ELSE [s EXCEPT !.currentTokenText = Append(@, c),
                   !.currentValue = Append(@, c)]

\* Lines 234-262: a character of an unquoted option value.
scanOptionValue(s, pos, c) ==
    IF c = "\""
    THEN IF Len(s.currentTokenText) = 0
         THEN [s EXCEPT !.inQuotes = TRUE, !.currentTokenText = <<"\"">>]
         ELSE completeOptionValueThen(
                  parseError(s, pos, "unexpected quotation mark"),
                  <<"\"">>, Invalid)
    ELSE IF IsWhitespace(c)
    THEN completeOptionValueThen(s, <<" ">>, Space)
    ELSE IF c = "\\"
    THEN completeOptionValueThen(
             parseError(s, pos, "unexpected escape character"),
             <<"\\">>, Invalid)
    ELSE IF c = ":"
    THEN completeOptionValueThen(
             parseError(s, pos, "unexpected colon character"),
             <<":">>, Invalid)
    ELSE [s EXCEPT !.currentTokenText = Append(@, c),
                   !.currentValue = Append(@, c)]

\* A colon handler without the check for a repeated non-multiple option.
scanColon_AllowsRepeat(s, pos, opts) ==
    LET s1 == [s EXCEPT !.currentTokenText = Append(@, ":")]
        name == s1.currentValue
    IN  IF Len(name) = 0
        THEN completeToken(parseError(s1, pos, "unexpected colon character"),
                           Invalid)
        ELSE LET s2 ==
                   IF name \in DOMAIN opts
                   THEN [completeToken(s1, OptionName) EXCEPT
                            !.currentOption = opts[name],
                            !.inOptionValue = TRUE]
                   ELSE parseError(completeToken(s1, InvalidOptionName),
                                   pos, "unknown option")
             IN  [s2 EXCEPT !.currentValue = <<>>]

\* A colon handler that enters option-value mode for an unknown name too,
\* without a current option.
scanColon_UnknownEntersValue(s, pos, opts) ==
    LET s1 == [s EXCEPT !.currentTokenText = Append(@, ":")]
        name == s1.currentValue
    IN  IF Len(name) = 0
        THEN completeToken(parseError(s1, pos, "unexpected colon character"),
                           Invalid)
        ELSE LET s2 ==
                   IF name \in DOMAIN opts
                   THEN IF /\ ~opts[name].multiple
                           /\ name \in DOMAIN s1.result.options
                        THEN parseError(completeToken(s1, InvalidOptionName),
                                        pos, "illegally repeated option")
                        ELSE [completeToken(s1, OptionName) EXCEPT
                                 !.currentOption = opts[name],
                                 !.inOptionValue = TRUE]
                   ELSE [parseError(completeToken(s1, InvalidOptionName),
                                    pos, "unknown option")
                            EXCEPT !.inOptionValue = TRUE]
             IN  [s2 EXCEPT !.currentValue = <<>>]

\* A colon that rejects a non-multiple option named before, whether or not
\* a value was stored for it.
scanColon_RejectsSeenOption(s, pos, opts) ==
    LET s1 == [s EXCEPT !.currentTokenText = Append(@, ":")]
        name == s1.currentValue
        seen == \E k \in 1..Len(s1.tokens) :
                    /\ s1.tokens[k].type = OptionName
                    /\ s1.tokens[k].content = Append(name, ":")
    IN  IF Len(name) = 0
        THEN completeToken(parseError(s1, pos, "unexpected colon character"),
                           Invalid)
        ELSE LET s2 ==
                   IF name \in DOMAIN opts
                   THEN IF ~opts[name].multiple /\ seen
                        THEN parseError(completeToken(s1, InvalidOptionName),
                                        pos, "illegally repeated option")
                        ELSE [completeToken(s1, OptionName) EXCEPT
                                 !.currentOption = opts[name],
                                 !.inOptionValue = TRUE]
                   ELSE parseError(completeToken(s1, InvalidOptionName),
                                   pos, "unknown option")
             IN  [s2 EXCEPT !.currentValue = <<>>]

\* Lines 286-306: a colon in bare text.
scanColon(s, pos, opts) ==
    LET s1 == [s EXCEPT !.currentTokenText = Append(@, ":")]
        name == s1.currentValue
    IN  IF Len(name) = 0
        THEN completeToken(parseError(s1, pos, "unexpected colon character"),
                           Invalid)
        ELSE LET s2 ==
                   IF name \in DOMAIN opts
                   THEN IF /\ ~opts[name].multiple
                           /\ name \in DOMAIN s1.result.options
                        THEN parseError(completeToken(s1, InvalidOptionName),
                                        pos, "illegally repeated option")
                        ELSE [completeToken(s1, OptionName) EXCEPT
                                 !.currentOption = opts[name],
                                 !.inOptionValue = TRUE]
                   ELSE parseError(completeToken(s1, InvalidOptionName),
                                   pos, "unknown option")
             IN  [s2 EXCEPT !.currentValue = <<>>]

\* A bare-text scanner that pushes a term at every whitespace character,
\* also when no word is pending.
scanBareText_AlwaysPushes(s, pos, c, opts) ==
    IF IsWhitespace(c)
    THEN LET t == completeToken(s, Text)
             s1 == [t EXCEPT !.result.text = Append(@, t.currentValue)]
             s2 == completeToken([s1 EXCEPT !.currentTokenText = <<" ">>], Space)
         IN  [s2 EXCEPT !.currentValue = <<>>]
    ELSE IF c = "\""
    THEN IF Len(s.currentTokenText) = 0
         THEN [s EXCEPT !.inQuotes = TRUE, !.currentTokenText = <<"\"">>]
         ELSE LET s1 == completeToken(
                            parseError(s, pos, "unexpected quotation mark"), Text)
              IN  completeToken([s1 EXCEPT !.currentTokenText = <<"\"">>], Invalid)
    ELSE IF c = "\\"
    THEN LET s1 == parseError(s, pos, "unexpected escape character")
         IN  completeToken([s1 EXCEPT !.currentTokenText = <<"\\">>], Invalid)
    ELSE IF c = ":"
    THEN scanColon(s, pos, opts)
    ELSE [s EXCEPT !.currentTokenText = Append(@, c),
                   !.currentValue = Append(@, c)]

\* Lines 263-311: a character of bare text.
scanBareText(s, pos, c, opts) ==
    IF IsWhitespace(c)
    THEN LET s1 == IF Len(s.currentTokenText) > 0
                   THEN LET t == completeToken(s, Text)
                        IN  [t EXCEPT !.result.text = Append(@, t.currentValue)]
                   ELSE s
             s2 == completeToken([s1 EXCEPT !.currentTokenText = <<" ">>], Space)
         IN  [s2 EXCEPT !.currentValue = <<>>]
    ELSE IF c = "\""
    THEN IF Len(s.currentTokenText) = 0
         THEN [s EXCEPT !.inQuotes = TRUE, !.currentTokenText = <<"\"">>]
         ELSE LET s1 == completeToken(
                            parseError(s, pos, "unexpected quotation mark"), Text)
              IN  completeToken([s1 EXCEPT !.currentTokenText = <<"\"">>], Invalid)
    ELSE IF c = "\\"
    THEN LET s1 == parseError(s, pos, "unexpected escape character")
         IN  completeToken([s1 EXCEPT !.currentTokenText = <<"\\">>], Invalid)
    ELSE IF c = ":"
    THEN scanColon(s, pos, opts)
    ELSE [s EXCEPT !.currentTokenText = Append(@, c),
                   !.currentValue = Append(@, c)]

\* An end of input that reports the open quote but drops what is pending.
endOfInput_DropsPending(s, length) ==
    IF s.inQuotes
    THEN completeToken(
             parseError(completeToken(s, Text), length,
                        "missing quotation mark"),
             MissingQuote)
    ELSE IF s.inOptionValue
    THEN completeOptionValue(s)
    ELSE IF Len(s.currentValue) > 0
         THEN completeToken(
                  [s EXCEPT !.result.text = Append(@, s.currentValue)], Text)
         ELSE s

\* Lines 315-331: the end of the input; length is str.length.
endOfInput(s, length) ==
    IF s.inQuotes
    THEN LET s1 == completeToken(s, Text)
             s2 == IF s1.inOptionValue
                   THEN completeOptionValue(s1)
                   ELSE [s1 EXCEPT !.result.text = Append(@, s1.currentValue)]
         IN  IF s2.thrown
             THEN s2
             ELSE completeToken(
                      parseError(s2, length, "missing quotation mark"),
                      MissingQuote)
    ELSE IF s.inOptionValue
    THEN completeOptionValue(s)
    ELSE IF Len(s.currentValue) > 0
         THEN completeToken(
                  [s EXCEPT !.result.text = Append(@, s.currentValue)], Text)
         ELSE s

-----------------------------------------------------------------------------------------------------------------------------------------------------
(* The inputs.  An input is a phrase: the concatenation of at most         *)
(* MaxPieces pieces of a vocabulary.  Each scenario pairs a schema with    *)
(* the vocabulary that exercises it: the characters the scanner treats     *)
(* specially, the schema's option names followed by a colon, and values    *)
(* its option types accept or reject.                                      *)

MaxPieces == 5

RECURSIVE Phrases(_, _)
Phrases(vocabulary, n) ==
    IF n = 0 THEN {<<>>}
    ELSE LET shorter == Phrases(vocabulary, n - 1)
         IN  shorter \cup {s \o piece : s \in shorter, piece \in vocabulary}

Option(name, type, multiple, choices) ==
    [name |-> name, type |-> type, multiple |-> multiple, options |-> choices]

Scenario(cfg, vocabulary) == [config |-> cfg, vocabulary |-> vocabulary]

Scenarios ==
    { \* quoting and escapes, with no schema
      Scenario(<<>>, { <<"\"">>, <<"\\">>, <<"n">>, <<"a">>, <<" ">> }),
      \* the special characters of bare text, and option names typed
      \* character by character
      Scenario(<< Option(<<"a">>, "string", FALSE, <<>>),
                  Option(<<"n">>, "number", TRUE, <<>>) >>,
               { <<"a">>, <<":">>, <<"\t">>, <<"\\">>, <<"\"">> }),
      \* a single-valued and a multi-valued option
      Scenario(<< Option(<<"s">>, "string", FALSE, <<>>),
                  Option(<<"m">>, "string", TRUE, <<>>) >>,
               { <<"s", ":">>, <<"m", ":">>, <<"a">>, <<"1">>, <<" ">> }),
      \* a boolean option
      Scenario(<< Option(<<"b">>, "boolean", FALSE, <<>>) >>,
               { <<"b", ":">>, <<"y", "e", "s">>, <<"n", "o">>, <<"a">>, <<" ">> }),
      \* a number option
      Scenario(<< Option(<<"k">>, "number", TRUE, <<>>) >>,
               { <<"k", ":">>, <<"1">>, <<"a">>, <<" ">>, <<"\"">> }),
      \* an enum option
      Scenario(<< Option(<<"e">>, "enum", FALSE, << <<"a">>, <<"1", "a">> >>) >>,
               { <<"e", ":">>, <<"a">>, <<"1">>, <<" ">> }),
      \* a schema that declares a name twice
      Scenario(<< Option(<<"s">>, "string", FALSE, <<>>),
                  Option(<<"s">>, "string", TRUE, <<>>) >>,
               { <<"s", ":">>, <<"a">>, <<" ">> }) }

\* Lines 97-102: a later option of the same name replaces an earlier one.
optionsOf(cfg) ==
    [name \in {cfg[k].name : k \in DOMAIN cfg} |->
        cfg[CHOOSE k \in DOMAIN cfg :
                /\ cfg[k].name = name
                /\ \A j \in DOMAIN cfg : j > k => cfg[j].name # name]]

-----
(* The state machine.                                                      *)

\* parse called on its own: no Search component is mounted.
Unmounted ==
    /\ props = [onChange |-> FALSE, onError |-> FALSE]
    /\ textContent = <<>>
    /\ installed = FALSE
    /\ autocomplete = null
    /\ pending = <<>>
    /\ typed = 0
    /\ caret = null
    /\ orphaned = FALSE
    /\ handled = null
    /\ newest = "none"

\* Lines 91-111: the state of parse before the loop.
Init ==
    /\ \E scenario \in Scenarios :
          /\ config = scenario.config
          /\ str \in Phrases(scenario.vocabulary, MaxPieces)
    /\ options = optionsOf(config)
    /\ tokens = <<>>
    /\ result = [text |-> <<>>, options |-> <<>>]
    /\ error = null
    /\ currentTokenText = <<>>
    /\ currentValue = <<>>
    /\ inQuotes = FALSE
    /\ escaped = FALSE
    /\ inOptionValue = FALSE
    /\ currentOption = null
    /\ i = 0
    /\ pc = "scan"
    /\ raised = <<>>
    /\ quoteStart = -1
    /\ Unmounted

\* The closure state after a step; an exception ends parse.
Becomes(s, nextPc) ==
    /\ tokens' = s.tokens
    /\ result' = s.result
    /\ error' = s.error
    /\ currentTokenText' = s.currentTokenText
    /\ currentValue' = s.currentValue
    /\ inQuotes' = s.inQuotes
    /\ escaped' = s.escaped
    /\ inOptionValue' = s.inOptionValue
    /\ currentOption' = s.currentOption
    /\ raised' = s.raised
    /\ quoteStart' = IF ~inQuotes /\ s.inQuotes THEN i ELSE quoteStart
    /\ pc' = IF s.thrown THEN "thrown" ELSE nextPc
    /\ UNCHANGED <<str, config, options>>
    /\ UNCHANGED inputVars

\* str[i] of the source (TLA+ sequences start at 1).
currentChar == str[i + 1]

InLoop == pc = "scan" /\ i < Len(str)

ScanEscaped ==
    /\ InLoop /\ inQuotes /\ escaped
    /\ Becomes(scanEscaped(state, i, currentChar), "scan")
    /\ i' = i + 1

ScanQuoted ==
    /\ InLoop /\ inQuotes /\ ~escaped
    /\ Becomes(scanQuoted(state, i, currentChar), "scan")
    /\ i' = i + 1

ScanOptionValue ==
    /\ InLoop /\ ~inQuotes /\ inOptionValue
    /\ Becomes(scanOptionValue(state, i, currentChar), "scan")
    /\ i' = i + 1

ScanBareText ==
    /\ InLoop /\ ~inQuotes /\ ~inOptionValue
    /\ Becomes(scanBareText(state, i, currentChar, options), "scan")
    /\ i' = i + 1

EndOfInput ==
    /\ pc = "scan" /\ i = Len(str)
    /\ Becomes(endOfInput(state, Len(str)), "done")
    /\ i' = i

Next == ScanEscaped \/ ScanQuoted \/ ScanOptionValue \/ ScanBareText \/ EndOfInput

Spec == Init /\ [][Next]_vars

-----------------------------------------------------------------------------
(* The Search component.  An edit of the contentEditable span dispatches   *)
(* an 'input' event; when handleInput is installed it runs (lines 413-551) *)
(* up to its end or up to the await of the provider's promise, and the     *)
(* rest runs when the promise is fulfilled.  handleInput calls parse on    *)
(* the span's text: the scan above runs inside the handler, and no other   *)
(* event is handled before the handler returns or awaits.                  *)

\* An option with the optional title (line 7), and one with a
\* suggestionProvider (lines 19-20); what a call of the provider does is
\* chosen when it is called.
Titled(option, title) == option @@ ("title" :> title)

Providing(option) == option @@ ("suggestionProvider" :> TRUE)

\* The schemas given to the component: the same three options in two
\* orders, the number option with and without a provider.
SearchConfigs ==
    { << Option(<<"b">>, "boolean", FALSE, <<>>),
         Titled(Option(<<"e">>, "enum", FALSE,
                       << <<"a", "b">>, <<"b">>, <<"a">> >>), <<"b", "e">>),
         Providing(Titled(Option(<<"k">>, "number", TRUE, <<>>), <<"a">>)) >>,
      << Titled(Option(<<"k">>, "number", TRUE, <<>>), <<"a">>),
         Titled(Option(<<"e">>, "enum", FALSE,
                       << <<"a", "b">>, <<"b">>, <<"a">> >>), <<"b", "e">>),
         Option(<<"b">>, "boolean", FALSE, <<>>) >> }

\* What one edit appends to the text.
Keys ==
    { <<"b", ":">>, <<"e", ":">>, <<"k", ":">>, <<"a">>, <<"b">>, <<" ">>,
      <<"\"">>, <<"\\">> }

\* The number of edits.
MaxTyped == 3

\* The selection when the event is handled, as lines 416-436 resolve it
\* against the span: -1 for an end outside the span, else an offset into its
\* text.  The caret anywhere, the whole text selected, or nothing.
Selections(length) ==
    {[anchorPos |-> p, focusPos |-> p] : p \in -1..length}
        \cup {[anchorPos |-> 0, focusPos |-> length]}

\* What a provider returns or its promise is fulfilled with.
Suggestions == { <<>>, << [name |-> <<"1">>], [name |-> <<"1", "0">>] >> }

\* Line 456: the text of a token's span.
rendered(content) ==
    [k \in 1..Len(content) |->
        IF IsWhitespace(content[k]) THEN NBSP ELSE content[k]]

RECURSIVE textOf(_)
textOf(toks) ==
    IF toks = <<>> THEN <<>>
    ELSE rendered(Head(toks).content) \o textOf(Tail(toks))

\* currentOffset when the loop of lines 455-473 reaches token k.
RECURSIVE offsetOf(_, _)
offsetOf(toks, k) ==
    IF k = 1 THEN 0
    ELSE offsetOf(toks, k - 1) + Len(toks[k - 1].content)

\* Lines 454-480: the index of autocompleteToken in toks, 0 for null.
autocompleteTokenAt(toks, startPos, endPos) ==
    LET under == {k \in 1..Len(toks) :
                     /\ endPos >= offsetOf(toks, k)
                     /\ endPos < offsetOf(toks, k) + Len(toks[k].content)
                     /\ startPos = endPos}
    IN  IF toks = <<>> THEN 0
        ELSE IF startPos >= offsetOf(toks, Len(toks) + 1) THEN Len(toks)
        ELSE IF under = {} THEN 0
        ELSE CHOOSE k \in under : TRUE

\* String.prototype.startsWith
startsWith(s, prefix) ==
    Len(prefix) <= Len(s) /\ SubSeq(s, 1, Len(prefix)) = prefix

\* Entries for the options whose name starts with content, titles ignored.
optionEntries_NamesOnly(cfg, content) ==
    LET matching == SelectSeq(cfg,
                              LAMBDA opt : startsWith(opt.name, content))
    IN  [k \in 1..Len(matching) |->
            IF "title" \in DOMAIN matching[k]
            THEN [name |-> Append(matching[k].name, ":"),
                  description |-> matching[k].title]
            ELSE [name |-> Append(matching[k].name, ":")]]

\* Lines 493-502: one entry for each option of the schema, in its order,
\* whose name or title starts with content.
optionEntries(cfg, content) ==
    LET matching == SelectSeq(cfg,
                              LAMBDA opt :
                                  \/ startsWith(opt.name, content)
                                  \/ /\ "title" \in DOMAIN opt
                                     /\ startsWith(opt.title, content))
    IN  [k \in 1..Len(matching) |->
            IF "title" \in DOMAIN matching[k]
            THEN [name |-> Append(matching[k].name, ":"),
                  description |-> matching[k].title]
            ELSE [name |-> Append(matching[k].name, ":")]]

\* Entries for every choice of an enum option, whatever the content.
enumEntries_Unfiltered(option, content) ==
    [k \in 1..Len(option.options) |-> [name |-> option.options[k]]]

\* Lines 514-516: the choices of an enum option that start with content.
enumEntries(option, content) ==
    LET matching == SelectSeq(option.options,
                              LAMBDA choice : startsWith(choice, content))
    IN  [k \in 1..Len(matching) |-> [name |-> matching[k]]]

\* Lines 518-520: the token's hint is a number or string option that has a
\* suggestionProvider, so the provider is called.
callsProvider(token) ==
    /\ token # null
    /\ token.suggest \notin {SuggestOptions, SuggestNone}
    /\ token.suggest.type \in {"number", "string"}
    /\ "suggestionProvider" \in DOMAIN token.suggest

\* Candidates that filter yes and no by the token's text, as the choices
\* of an enum option are.
entriesFor_BooleanFiltered(cfg, token) ==
    IF token = null THEN <<>>
    ELSE IF token.suggest = SuggestOptions
    THEN optionEntries(cfg, token.content)
    ELSE IF token.suggest = SuggestNone THEN <<>>
    ELSE CASE token.suggest.type = "boolean" ->
                 enumEntries([options |-> << <<"y", "e", "s">>, <<"n", "o">> >>],
                             token.content)
           [] token.suggest.type = "enum" ->
                 enumEntries(token.suggest, token.content)
           [] OTHER -> <<>>

\* Lines 490-533 up to the call of a provider: autocompleteEntries for the
\* token under the caret.
entriesFor(cfg, token) ==
    IF token = null THEN <<>>
    ELSE IF token.suggest = SuggestOptions
    THEN optionEntries(cfg, token.content)
    ELSE IF token.suggest = SuggestNone THEN <<>>
    ELSE CASE token.suggest.type = "boolean" ->
                 << [name |-> <<"y", "e", "s">>], [name |-> <<"n", "o">>] >>
           [] token.suggest.type = "enum" ->
                 enumEntries(token.suggest, token.content)
           [] OTHER -> <<>>

\* Lines 416-488, when parse has returned: the locals of handleInput for
\* the selection at that time.  attached: the spans this handling created
\* are the children of the input (lines 441-459).  stale: the component has
\* rendered since this handleInput was created, so it is not the function
\* the cleanup of the effect (line 553) removes.  providerCalls counts the
\* calls of line 521.
handleInput(selection) ==
    LET outside == selection.anchorPos = -1 \/ selection.focusPos = -1
        anchorPos == IF outside THEN Len(str) ELSE selection.anchorPos
        focusPos == IF outside THEN Len(str) ELSE selection.focusPos
        startPos == IF anchorPos < focusPos THEN anchorPos ELSE focusPos
        endPos == IF anchorPos < focusPos THEN focusPos ELSE anchorPos
        anchor == autocompleteTokenAt(tokens, startPos, endPos)
    IN  [text |-> str,
         result |-> [tokens |-> tokens, error |-> error, result |-> result],
         anchor |-> anchor,
         token |-> IF anchor = 0 THEN null ELSE tokens[anchor],
         entries |-> <<>>, calls |-> <<>>, failed |-> FALSE,
         attached |-> TRUE, stale |-> FALSE, providerCalls |-> 0]

\* Lines 546-550: the callbacks handleInput invokes, with their arguments.
notification(h) ==
    IF h.result.error = null /\ props.onChange
    THEN << [callback |-> "onChange", argument |-> h.result.result] >>
    ELSE IF props.onError
    THEN << [callback |-> "onError", argument |-> h.result.error] >>
    ELSE <<>>

\* The component when mounted: the effect of line 553 has installed the
\* listener, and nothing was typed.
InputInit ==
    /\ config \in SearchConfigs
    /\ options = optionsOf(config)
    /\ str = <<>>
    /\ tokens = <<>>
    /\ result = [text |-> <<>>, options |-> <<>>]
    /\ error = null
    /\ currentTokenText = <<>>
    /\ currentValue = <<>>
    /\ inQuotes = FALSE
    /\ escaped = FALSE
    /\ inOptionValue = FALSE
    /\ currentOption = null
    /\ i = 0
    /\ pc = "idle"
    /\ raised = <<>>
    /\ quoteStart = -1
    /\ props \in [onChange : BOOLEAN, onError : BOOLEAN]
    /\ textContent = <<>>
    /\ installed = TRUE
    /\ autocomplete = null
    /\ pending = <<>>
    /\ typed = 0
    /\ caret = null
    /\ orphaned = FALSE
    /\ handled = null
    /\ newest = "none"

\* No handler is running: parse is not in progress and has not just
\* returned to handleInput.
Quiet == pc \notin {"scan", "done"}

\* The user acts on the component.  Once the handleInput of an earlier
\* render is installed next to the current one an edit runs both, which the
\* model does not follow: it stops the user there.
Idle == Quiet /\ ~orphaned

\* An edit while no listener is installed: no handler runs.
InputUnheard ==
    /\ Idle /\ ~installed /\ typed < MaxTyped
    /\ \E key \in Keys : textContent' = textContent \o key
    /\ typed' = typed + 1
    /\ UNCHANGED <<parseVars, props, installed, autocomplete, pending, caret,
                   orphaned, handled, newest>>

\* Lines 413-415: handleInput runs on the input, whose text is text.  It
\* removes the listener and calls parse on the text.
Handles(text) ==
    /\ textContent' = text
    /\ str' = text
    /\ typed' = typed + 1
    /\ installed' = FALSE
    /\ tokens' = <<>>
    /\ result' = [text |-> <<>>, options |-> <<>>]
    /\ error' = null
    /\ currentTokenText' = <<>>
    /\ currentValue' = <<>>
    /\ inQuotes' = FALSE
    /\ escaped' = FALSE
    /\ inOptionValue' = FALSE
    /\ currentOption' = null
    /\ i' = 0
    /\ pc' = "scan"
    /\ raised' = <<>>
    /\ quoteStart' = -1
    /\ newest' = "running"
    /\ UNCHANGED <<config, options, props, autocomplete, pending, orphaned,
                   handled>>

\* An edit while the listener is installed: the 'input' event runs
\* handleInput.
InputHeard ==
    /\ Idle /\ installed /\ typed < MaxTyped
    /\ \E key \in Keys : Handles(textContent \o key)
    /\ UNCHANGED caret

\* The handlings parse has returned to: one for each selection the user may
\* have made, or the one for the selection suggestionSelect has set.
Handlings ==
    { handleInput(selection) :
        selection \in IF caret = null THEN Selections(Len(str)) ELSE {caret} }

\* Lines 441-443: the children of the input are removed, so the spans of
\* the earlier handlings are no longer in the document.
removed(handlings) ==
    [k \in DOMAIN handlings |-> [handlings[k] EXCEPT !.attached = FALSE]]

\* The autocomplete state when the children of the input were removed: its
\* anchor is one of them.
detached(shown) ==
    IF shown = null THEN null ELSE [shown EXCEPT !.attached = FALSE]

\* The component renders: the handlings that await were started by the
\* handleInput of an earlier render.
outdated(handlings) ==
    [k \in DOMAIN handlings |-> [handlings[k] EXCEPT !.stale = TRUE]]

\* Lines 441-490: the span's children are rebuilt from the tokens and the
\* selection is set on them.
Rebuilds ==
    /\ textContent' = textOf(tokens)
    /\ pc' = "idle"
    /\ caret' = null
    /\ UNCHANGED <<parseLocals, props, typed>>

\* Lines 534-550: the autocomplete state is set from the entries, the
\* listener installed and the caller notified; others are the handlings
\* that still await.  setAutocomplete renders the component unless the
\* state was null and stays null, and the effect of line 553 then removes
\* the handleInput of the render before and installs the new one: the
\* handleInput of a stale handling stays installed next to it.
Finishes(h, entries, others) ==
    LET renders == Len(entries) > 0 \/ autocomplete # null
    IN  /\ autocomplete' = IF Len(entries) > 0
                           THEN [entries |-> entries, anchor |-> h.anchor,
                                 token |-> h.token, selection |-> 0,
                                 attached |-> h.attached]
                           ELSE null
        /\ installed' = TRUE
        /\ orphaned' = (orphaned \/ h.stale)
        /\ pending' = IF renders THEN outdated(others) ELSE others
        /\ handled' = [h EXCEPT !.entries = entries,
                                !.calls = notification(h)]

\* Lines 416-551: the handler ends without a call of a provider.
InputCompletes ==
    /\ pc = "done"
    /\ \E h \in Handlings :
          /\ ~callsProvider(h.token)
          /\ Finishes(h, entriesFor(config, h.token), removed(pending))
    /\ newest' = "finished"
    /\ Rebuilds

\* Lines 521-528: the provider returns an array, which is pushed.
InputProvided ==
    /\ pc = "done"
    /\ \E h \in Handlings : \E suggestions \in Suggestions :
          /\ callsProvider(h.token)
          /\ Finishes([h EXCEPT !.providerCalls = 1],
                      entriesFor(config, h.token) \o suggestions,
                      removed(pending))
    /\ newest' = "finished"
    /\ Rebuilds

\* Line 521: the provider throws.  Nothing catches it: the promise of
\* handleInput is rejected and the rest of the handler does not run.  The
\* listener was removed at line 414.
InputThrows ==
    /\ pc = "done"
    /\ \E h \in Handlings :
          /\ callsProvider(h.token)
          /\ handled' = [h EXCEPT !.failed = TRUE, !.providerCalls = 1]
    /\ autocomplete' = detached(autocomplete)
    /\ pending' = removed(pending)
    /\ newest' = "failed"
    /\ Rebuilds
    /\ UNCHANGED <<installed, orphaned>>

\* Lines 523-524: the provider returns a promise and handleInput awaits it.
InputAwaits ==
    /\ pc = "done"
    /\ \E h \in Handlings :
          /\ callsProvider(h.token)
          /\ pending' = Append(removed(pending),
                               [h EXCEPT !.providerCalls = 1])
    /\ autocomplete' = detached(autocomplete)
    /\ newest' = "awaiting"
    /\ Rebuilds
    /\ UNCHANGED <<installed, orphaned, handled>>

\* pending without its k-th handling.
Settled(k) ==
    SubSeq(pending, 1, k - 1) \o SubSeq(pending, k + 1, Len(pending))

\* The k-th handling that awaits is the most recently started handling:
\* handlings start one after the other and pending is in that order.
IsNewest(k) == newest = "awaiting" /\ k = Len(pending)

\* Lines 524-550: the promise is fulfilled and handleInput resumes.
ProviderResolves ==
    /\ Quiet
    /\ \E k \in DOMAIN pending : \E suggestions \in Suggestions :
          /\ Finishes(pending[k], pending[k].entries \o suggestions,
                      Settled(k))
          /\ newest' = IF IsNewest(k) THEN "finished" ELSE newest
    /\ UNCHANGED <<parseVars, props, textContent, typed, caret>>

\* Line 524: the promise is rejected.  Nothing catches it: the promise of
\* handleInput is rejected and the rest of the handler does not run.
ProviderRejects ==
    /\ Quiet
    /\ \E k \in DOMAIN pending :
          /\ handled' = [pending[k] EXCEPT !.failed = TRUE]
          /\ pending' = Settled(k)
          /\ newest' = IF IsNewest(k) THEN "failed" ELSE newest
    /\ UNCHANGED <<parseVars, props, textContent, typed, installed,
                   autocomplete, caret, orphaned>>

InputNext ==
    \/ InputUnheard \/ InputHeard
    \/ Next
    \/ InputCompletes \/ InputProvided \/ InputThrows \/ InputAwaits
    \/ ProviderResolves \/ ProviderRejects

SpecInput == InputInit /\ [][InputNext]_vars

-----------------------------------------------------------------------------
(* The keyboard and the list of candidates: ArrowUp, ArrowDown and Tab     *)
(* (lines 614-625) and the pointer over a candidate act on the autocomplete *)
(* state.  A call of setAutocomplete renders the component, and the render *)
(* with its effect (line 553) is taken to be over before the next event.   *)

\* Lines 589-593: the text suggestionSelect writes for a candidate's name.
RECURSIVE escapedName(_)
escapedName(name) ==
    IF name = <<>> THEN <<>>
    ELSE (IF Head(name) \in {"\\", "\""}
          THEN <<"\\", Head(name)>>
          ELSE <<Head(name)>>) \o escapedName(Tail(name))

quotedName(name) ==
    LET val == escapedName(name)
    IN  IF \E k \in DOMAIN val : IsWhitespace(val[k]) \/ val[k] \in {"\"", "\\"}
        THEN <<"\"">> \o val \o <<"\"">>
        ELSE val

\* Lines 558-561, 568-571, 578-581: setAutocomplete with another selection.
\* The component renders and the effect of line 553 installs the
\* handleInput of the new render, also while a handling awaits.
Selects(selection) ==
    /\ Idle /\ autocomplete # null
    /\ autocomplete' = [autocomplete EXCEPT !.selection = selection]
    /\ installed' = TRUE
    /\ pending' = outdated(pending)
    /\ UNCHANGED <<parseVars, props, textContent, typed, caret, orphaned,
                   handled, newest>>

\* Lines 555-563
suggestionUp ==
    /\ autocomplete # null
    /\ Selects((Len(autocomplete.entries) + autocomplete.selection - 1)
                   % Len(autocomplete.entries))

\* Lines 565-573
suggestionDown ==
    /\ autocomplete # null
    /\ Selects((Len(autocomplete.entries) + autocomplete.selection + 1)
                   % Len(autocomplete.entries))

\* Lines 575-583, for the index of a candidate in the list.
suggestionHover ==
    /\ autocomplete # null
    /\ \E idx \in 0..(Len(autocomplete.entries) - 1) :
          Selects(idx % Len(autocomplete.entries))

\* Lines 585-612: the selected candidate is written into the anchor, or
\* into a new span after it when the token is a Space token, the caret is
\* put behind it and handleInput is called, whether or not the listener is
\* installed.  The children of the input are the spans of the most recent
\* handling, and what was typed since is in the last of them.  An anchor
\* that is no longer a child of the input has no next sibling, so the new
\* span is appended; writing into such an anchor changes no text of the
\* input, and a range in it is no selection of the document (-1 at lines
\* 417-436).  A selection counts as an edit.
suggestionSelect ==
    /\ Idle /\ autocomplete # null /\ typed < MaxTyped
    /\ LET val == quotedName(
                      autocomplete.entries[autocomplete.selection + 1].name)
           inserts == autocomplete.token.type = Space
           attached == autocomplete.attached
           length == Len(textContent)
           last == autocomplete.anchor = Len(tokens)
           start == offsetOf(tokens, autocomplete.anchor)
           stop == IF last THEN length
                   ELSE start + Len(autocomplete.token.content)
           text == CASE attached /\ inserts ->
                            SubSeq(textContent, 1, stop) \o val
                                \o SubSeq(textContent, stop + 1, length)
                     [] attached /\ ~inserts ->
                            SubSeq(textContent, 1, start) \o val
                                \o SubSeq(textContent, stop + 1, length)
                     [] ~attached /\ inserts -> textContent \o val
                     [] OTHER -> textContent
           position == CASE attached /\ inserts -> stop + Len(val)
                         [] attached /\ ~inserts -> start + Len(val)
                         [] ~attached /\ inserts -> length + Len(val)
                         [] OTHER -> -1
       IN  /\ Handles(text)
           /\ caret' = [anchorPos |-> position, focusPos |-> position]

SuggestNext ==
    \/ InputNext
    \/ suggestionUp \/ suggestionDown \/ suggestionHover \/ suggestionSelect

SpecSuggest == InputInit /\ [][SuggestNext]_vars

-----------------------------------------------------------------------------
(* Vocabulary of the properties.                                           *)

Done == pc = "done"

RECURSIVE ConcatContents(_)
ConcatContents(toks) ==
    IF toks = <<>> THEN <<>>
    ELSE Head(toks).content \o ConcatContents(Tail(toks))

TokenTypes(toks) == [k \in DOMAIN toks |-> toks[k].type]

Chars(s) == {s[k] : k \in DOMAIN s}

\* The whitespace characters an input can hold.
BlankChars == {" ", "\t"}

\* The length of the leading run of non-whitespace characters of s.
RECURSIVE WordLength(_)
WordLength(s) ==
    IF s = <<>> \/ Head(s) \in BlankChars THEN 0 ELSE 1 + WordLength(Tail(s))

\* The maximal non-whitespace runs of s, in order.
RECURSIVE Words(_)
Words(s) ==
    IF s = <<>> THEN <<>>
    ELSE IF Head(s) \in BlankChars THEN Words(Tail(s))
    ELSE <<SubSeq(s, 1, WordLength(s))>>
            \o Words(SubSeq(s, WordLength(s) + 1, Len(s)))

-----------------------------------------------------------------------------
\* C1: when parse returns, the contents of the tokens, concatenated in order,
\* are the input string.
C1_TokensReproduceInput == Done => ConcatContents(tokens) = str

-----------------------------------------------------------------------------
-----------------------------------------------------------------------------
\* C3: parse never throws and returns a result: inOptionValue is true exactly
\* when currentOption is not null, so completeOptionValue never meets a null
\* option, in every scan mode and at the end of input.
C3_NeverThrows ==
    /\ pc \in {"scan", "done"}
    /\ inOptionValue <=> currentOption # null
    /\ Done => result # null /\ i = Len(str)

\* The input ended inside the quoted value of an option: completeOptionValue
\* ran at the end of input.
C3_Witness ==
    /\ Done
    /\ inQuotes
    /\ \E k \in DOMAIN tokens : tokens[k].type = OptionName
    /\ tokens[Len(tokens)].type = MissingQuote
    /\ tokens[Len(tokens) - 1].type \in {MissingOptionValue, Numeric, Invalid}

-----------------------------------------------------------------------------
\* C4: for an input with no colon, quote or backslash, parse returns no error,
\* result.text is the sequence of maximal non-whitespace runs of the input
\* and result.options is empty.
C4_PlainTextSplits ==
    Done /\ Chars(str) \cap {":", "\"", "\\"} = {} =>
        /\ error = null
        /\ result.text = Words(str)
        /\ DOMAIN result.options = {}

\* A plain input with leading and repeated whitespace (tabs) and two words.
C4_Witness ==
    /\ Done
    /\ Chars(str) \cap {":", "\"", "\\"} = {}
    /\ Len(str) >= 5
    /\ str[1] = "\t"
    /\ \E k \in 1..(Len(str) - 1) : str[k] = "\t" /\ str[k + 1] = "\t"
    /\ Len(result.text) = 2

-----------------------------------------------------------------------------
(* Steps that complete an option value.  completeOptionValue is the only   *)
(* code that leaves option-value mode, so it ran in a step exactly when    *)
(* inOptionValue falls; the option and the decoded value it completed are  *)
(* currentOption and currentValue before the step.                         *)

AtEnd == pc = "scan" /\ i = Len(str)

CompletesValue == inOptionValue /\ ~inOptionValue'

\* The token completeOptionValue pushed: the first new token, or the second
\* at the end of input inside quotes, where completeToken(Text) comes first.
ValueToken == tokens'[Len(tokens) + (IF AtEnd /\ inQuotes THEN 2 ELSE 1)]

\* The step ended the value without a stray character: by whitespace, by the
\* closing quote, or by the end of an unquoted input.
EndsValueCleanly ==
    \/ AtEnd /\ ~inQuotes
    \/ InLoop /\ ~inQuotes /\ currentChar \in BlankChars
    \/ InLoop /\ inQuotes /\ ~escaped /\ currentChar = "\""

\* result.options after the step holds value for option, stored as the
\* option's multiplicity asks, and is otherwise as before.
StoredAs(option, value) ==
    LET name == option.name
        before == result.options
        after == result'.options
    IN  /\ result'.text = result.text
        /\ DOMAIN after = DOMAIN before \cup {name}
        /\ \A other \in DOMAIN before \ {name} : after[other] = before[other]
        /\ IF option.multiple
           THEN after[name] =
                  [values |-> Append(IF name \in DOMAIN before
                                     THEN before[name].values
                                     ELSE <<>>, value)]
           ELSE after[name] = [value |-> value]

-----------------------------------------------------------------------------
\* C5: completing a Boolean option's value "yes" stores true and "no" stores
\* false, each with an Enum token (right after the OptionName token when the
\* value is unquoted) and without raising an error; any other non-empty value
\* is rejected.  A stored Number value comes with a Number token, a stored
\* Enum value with an Enum token, a String value with a Text token.
C5_AcceptedValues ==
    [][ /\ CompletesValue /\ currentValue # <<>> =>
            LET option == currentOption
                value == currentValue
                stored == result' # result
            IN  CASE option.type = "boolean" ->
                       IF value \in {<<"y", "e", "s">>, <<"n", "o">>}
                       THEN /\ ValueToken.type = Enum
                            /\ StoredAs(option, JSBoolean(value = <<"y", "e", "s">>))
                            /\ ~inQuotes => tokens[Len(tokens)].type = OptionName
                            /\ EndsValueCleanly => raised' = raised
                       ELSE ValueToken.type = Invalid /\ ~stored
                  [] option.type = "number" ->
                       /\ ValueToken.type \in {Numeric, Invalid}
                       /\ stored <=> ValueToken.type = Numeric
                  [] option.type = "enum" ->
                       /\ ValueToken.type \in {Enum, Invalid}
                       /\ stored <=> ValueToken.type = Enum
                       /\ stored => StoredAs(option, JSString(value))
                  [] option.type = "string" ->
                       /\ ValueToken.type = Text
                       /\ StoredAs(option, JSString(value))
        /\ pc' = "done" /\ str = <<"b", ":", "y", "e", "s">> =>
              /\ TokenTypes(tokens') = <<OptionName, Enum>>
              /\ result'.options = (<<"b">> :> [value |-> JSBoolean(TRUE)])
              /\ error' = null
        /\ pc' = "done" /\ str = <<"b", ":", "n", "o">> =>
              /\ TokenTypes(tokens') = <<OptionName, Enum>>
              /\ result'.options = (<<"b">> :> [value |-> JSBoolean(FALSE)])
              /\ error' = null
      ]_vars

\* A Boolean option was given the value "no" and nothing else went wrong.
C5_Witness ==
    /\ Done
    /\ error = null
    /\ <<"b">> \in DOMAIN result.options
    /\ result.options[<<"b">>] = [value |-> JSBoolean(FALSE)]
    /\ \E k \in 1..(Len(tokens) - 1) :
           tokens[k].type = OptionName /\ tokens[k + 1].type = Enum

-----------------------------------------------------------------------------
\* The values the claim names as rejected: a Boolean value other than yes and
\* no, an Enum value that is no choice of the option, a Number value holding
\* a character that is neither a digit nor whitespace.
NamedAsRejected(option, value) ==
    \/ option.type = "boolean" /\ value \notin {<<"y", "e", "s">>, <<"n", "o">>}
    \/ option.type = "enum"
         /\ \A k \in DOMAIN option.options : option.options[k] # value
    \/ option.type = "number"
         /\ \E k \in DOMAIN value :
                value[k] \notin {"0", "1", "2", "3", "4", "5", "6", "7", "8", "9",
                                 " ", "\t", "\n"}

\* C6: when a non-empty option value is rejected, its token is Invalid,
\* nothing is stored, and parse has an error.
C6_RejectedValueReportsError ==
    [][ CompletesValue /\ currentValue # <<>>
            /\ NamedAsRejected(currentOption, currentValue) =>
          /\ ValueToken.type = Invalid
          /\ result' = result
          /\ error' # null
      ]_vars

-----------------------------------------------------------------------------
\* A colon in bare text after a non-empty accumulated name.
ColonAfterName ==
    InLoop /\ ~inQuotes /\ ~inOptionValue /\ currentChar = ":"
        /\ currentValue # <<>>

\* C7: a colon after the name of a non-multiple option that has a stored
\* value emits an InvalidOptionName token, raises "illegally repeated
\* option", stays out of option-value mode with an empty accumulator, and
\* changes no result; no step changes the stored value of a non-multiple
\* option; for s:a s:1 the value a is kept and 1 lands in result.text.
C7_RepeatedSingleOption ==
    [][ /\ ColonAfterName /\ currentValue \in DOMAIN options
            /\ ~options[currentValue].multiple
            /\ currentValue \in DOMAIN result.options =>
              /\ tokens' = Append(tokens,
                                  [type |-> InvalidOptionName,
                                   content |-> Append(currentTokenText, ":"),
                                   suggest |-> SuggestNone])
              /\ raised' = Append(raised,
                                  [position |-> i,
                                   text |-> "illegally repeated option"])
              /\ ~inOptionValue' /\ ~inQuotes'
              /\ currentOption' = null
              /\ currentValue' = <<>>
              /\ result' = result
        /\ \A name \in DOMAIN result.options :
              ~options[name].multiple =>
                  /\ name \in DOMAIN result'.options
                  /\ result'.options[name] = result.options[name]
        /\ pc' = "done" /\ str = <<"s", ":", "a", " ", "s", ":", "1">> =>
              /\ result'.options = (<<"s">> :> [value |-> JSString(<<"a">>)])
              /\ result'.text = << <<"1">> >>
              /\ error' = [position |-> 5, text |-> "illegally repeated option"]
      ]_vars

\* A non-multiple option was repeated, and the text after the second colon
\* became a term of result.text.
C7_Witness ==
    /\ Done
    /\ error # null
    /\ error.text = "illegally repeated option"
    /\ tokens[Len(tokens)].type = Text
    /\ tokens[Len(tokens) - 1].type = InvalidOptionName
    /\ Len(result.text) = 1
    /\ \E name \in DOMAIN result.options : "value" \in DOMAIN result.options[name]

-----------------------------------------------------------------------------
\* C8: for an option with multiple = true, a completed value that is accepted
\* is appended to result.options[name].values after the values already
\* there, a rejected or missing value changes nothing, and a colon after the
\* option's name always emits OptionName and enters option-value mode without
\* raising an error; for m:a m:1 the values are a, 1 and there is no error.
C8_MultipleOptionAppends ==
    [][ /\ CompletesValue /\ currentOption.multiple =>
              IF currentValue # <<>>
                    /\ ValueToken.type \in {Text, Numeric, Enum}
              THEN LET name == currentOption.name
                       old == IF name \in DOMAIN result.options
                              THEN result.options[name].values
                              ELSE <<>>
                       new == result'.options[name].values
                   IN  /\ Len(new) = Len(old) + 1
                       /\ SubSeq(new, 1, Len(old)) = old
                       /\ currentOption.type = "string" =>
                              StoredAs(currentOption, JSString(currentValue))
                       /\ currentOption.type = "number" =>
                              DOMAIN new[Len(new)] = {"number"}
              ELSE /\ ValueToken.type \in {Invalid, MissingOptionValue}
                   /\ result' = result
        /\ ColonAfterName /\ currentValue \in DOMAIN options
            /\ options[currentValue].multiple =>
              /\ tokens'[Len(tokens')].type = OptionName
              /\ Len(tokens') = Len(tokens) + 1
              /\ inOptionValue'
              /\ currentOption' = options[currentValue]
              /\ raised' = raised
        /\ pc' = "done" /\ str = <<"m", ":", "a", " ", "m", ":", "1">> =>
              /\ result'.options =
                    (<<"m">> :> [values |-> <<JSString(<<"a">>), JSString(<<"1">>)>>])
              /\ error' = null
      ]_vars

\* A multiple option was given two different values.
C8_Witness ==
    /\ Done
    /\ error = null
    /\ \E name \in DOMAIN result.options :
          /\ options[name].multiple
          /\ Len(result.options[name].values) = 2
          /\ result.options[name].values[1] # result.options[name].values[2]

-----------------------------------------------------------------------------
NamesUnique(cfg) ==
    \A j, k \in DOMAIN cfg : j # k => cfg[j].name # cfg[k].name

\* C9: with unique schema names, in every state of the scan every key of
\* result.options is a schema name, with a non-empty values sequence if the
\* schema option is multiple and a single value if it is not.
C9_ShapeFollowsMultiplicity ==
    NamesUnique(config) =>
        \A name \in DOMAIN result.options :
            /\ \E k \in DOMAIN config : config[k].name = name
            /\ \A k \in DOMAIN config :
                  config[k].name = name =>
                      IF config[k].multiple
                      THEN /\ DOMAIN result.options[name] = {"values"}
                           /\ Len(result.options[name].values) > 0
                      ELSE DOMAIN result.options[name] = {"value"}

\* The result holds a single-valued and a multi-valued option.
C9_Witness ==
    /\ NamesUnique(config)
    /\ \E name \in DOMAIN result.options : "value" \in DOMAIN result.options[name]
    /\ \E name \in DOMAIN result.options : "values" \in DOMAIN result.options[name]

-----------------------------------------------------------------------------
(* The decoding of a quoted span, as the escape table of the claim has it. *)

Decoded(c) == CASE c = "n" -> "\n" [] c = "\"" -> "\"" [] c = "\\" -> "\\"

ValidEscape(c) == c \in {"n", "\"", "\\"}

\* The plain characters and the mapped characters of the valid escapes of
\* body, in order; an invalid escape gives nothing.
RECURSIVE DecodedBody(_)
DecodedBody(body) ==
    IF body = <<>> THEN <<>>
    ELSE IF Head(body) = "\\"
         THEN (IF ValidEscape(body[2]) THEN <<Decoded(body[2])>> ELSE <<>>)
                 \o DecodedBody(SubSeq(body, 3, Len(body)))
         ELSE <<Head(body)>> \o DecodedBody(Tail(body))

\* C10: inside quotes a plain character is appended to the decoded value; the
\* character after a backslash appends its mapped character and emits an
\* EscapeSequence token if it is in the escape table, and otherwise appends
\* nothing, emits an InvalidEscapeSequence token and raises "invalid escape
\* sequence"; either way the scan is back in quoting mode.  The quote that
\* closes a free-text span adds exactly one term to result.text: the value
\* decoded from the characters between the span's quotes.
C10_QuotedSpanDecodes ==
    [][ /\ InLoop /\ inQuotes /\ escaped =>
              /\ inQuotes' /\ ~escaped'
              /\ Len(tokens') = Len(tokens) + 1
              /\ tokens'[Len(tokens')].content = <<"\\", currentChar>>
              /\ result' = result
              /\ IF ValidEscape(currentChar)
                 THEN /\ currentValue' = Append(currentValue, Decoded(currentChar))
                      /\ tokens'[Len(tokens')].type = EscapeSequence
                      /\ raised' = raised
                 ELSE /\ currentValue' = currentValue
                      /\ tokens'[Len(tokens')].type = InvalidEscapeSequence
                      /\ raised' = Append(raised,
                                          [position |-> i,
                                           text |-> "invalid escape sequence"])
        /\ InLoop /\ inQuotes /\ ~escaped /\ currentChar = "\""
            /\ ~inOptionValue =>
              /\ result'.text =
                    Append(result.text,
                           DecodedBody(SubSeq(str, quoteStart + 2, i)))
              /\ result'.options = result.options
              /\ ~inQuotes'
              /\ raised' = raised
      ]_vars

-----------------------------------------------------------------------------
\* C11: when the input ends inside an open quote, the parse raises 'missing
\* quotation mark' at the input's length (it is the error when none came
\* before), the last token is a MissingQuote token, and the pending decoded
\* content is delivered: appended to result.text in text context, handed to
\* the option-value completion in option-value context.
C11_UnclosedQuote ==
    [][ AtEnd /\ inQuotes =>
          LET call == [position |-> Len(str), text |-> "missing quotation mark"]
          IN  /\ pc' = "done"
              /\ raised' = Append(raised, call)
              /\ (error = null => error' = call)
              /\ tokens'[Len(tokens')].type = MissingQuote
              /\ tokens'[Len(tokens) + 1] =
                   [type |-> Text, content |-> currentTokenText,
                    suggest |-> IF inOptionValue THEN currentOption
                                ELSE SuggestOptions]
              /\ IF inOptionValue
                 THEN /\ CompletesValue
                      /\ currentOption' = null
                      /\ Len(tokens') = Len(tokens) + 3
                      /\ ValueToken.suggest = currentOption
                      /\ IF currentValue = <<>>
                         THEN /\ ValueToken.type = MissingOptionValue
                              /\ result' = result
                         ELSE /\ currentOption.type = "string" =>
                                   StoredAs(currentOption, JSString(currentValue))
                              /\ currentOption.type = "number"
                                   /\ currentValue = <<"1">> =>
                                   StoredAs(currentOption, JSNumber(1))
                 ELSE /\ Len(tokens') = Len(tokens) + 2
                      /\ result'.text = Append(result.text, currentValue)
                      /\ result'.options = result.options
      ]_vars

\* An input that ends inside the quoted value of an option: the value is
\* stored, the error is the missing quote at the end of the input, and the
\* MissingQuote token is last.
C11_Witness ==
    /\ Done
    /\ inQuotes
    /\ error = [position |-> Len(str), text |-> "missing quotation mark"]
    /\ tokens[Len(tokens)].type = MissingQuote
    /\ DOMAIN result.options # {}

-----------------------------------------------------------------------------
\* The decoded text is a decimal literal as it stands: digits and nothing
\* else, so neither empty nor padded with whitespace.
IsDecimalLiteral(value) ==
    /\ value # <<>>
    /\ \A k \in 1..Len(value) : value[k] \in DOMAIN DigitValue

\* C17: a completed non-empty Number value is stored (with a Number token)
\* exactly when the decoded text, untrimmed, is a decimal literal, and is
\* otherwise rejected with an Invalid token and nothing stored, so a quoted
\* value of whitespace only, or a number padded with spaces, is rejected; a
\* String value is stored unchanged; an Enum value is stored exactly when it
\* is one of the declared choices.
C17_ValuesTakenAsWritten ==
    [][ CompletesValue /\ currentValue # <<>> =>
          LET option == currentOption
              rejected == ValueToken.type = Invalid /\ result' = result
          IN  CASE option.type = "number" ->
                     IF IsDecimalLiteral(currentValue)
                     THEN /\ ValueToken.type = Numeric
                          /\ StoredAs(option,
                                      JSNumber(DecimalValue(currentValue)))
                     ELSE rejected
                [] option.type = "string" ->
                     /\ ValueToken.type = Text
                     /\ StoredAs(option, JSString(currentValue))
                [] option.type = "enum" ->
                     IF \E k \in 1..Len(option.options) :
                            option.options[k] = currentValue
                     THEN /\ ValueToken.type = Enum
                          /\ StoredAs(option, JSString(currentValue))
                     ELSE rejected
                [] OTHER -> TRUE
      ]_vars

-----------------------------------------------------------------------------
\* The hint of a token completed outside option-value mode.
HintOutsideValue(type) ==
    IF type \in {Text, Space} THEN SuggestOptions ELSE SuggestNone

\* C18: every token a step completes while the scan is in option-value mode
\* (up to and including the token of the completed value), and every
\* MissingOptionValue token, carries the matched option, which is never null;
\* a Text or Space token completed outside option-value mode carries
\* 'options' and every other token 'none'.  So the Space token that ends an
\* option value and the OptionName token carry no option.
C18_SuggestionHints ==
    [][ \A k \in (Len(tokens) + 1)..Len(tokens') :
          LET token == tokens'[k]
              last == Len(tokens) + (IF AtEnd /\ inQuotes THEN 2 ELSE 1)
              inValue == inOptionValue /\ (CompletesValue => k <= last)
          IN  /\ token.suggest # null
              /\ token.suggest =
                   (IF inValue \/ token.type = MissingOptionValue
                    THEN currentOption
                    ELSE HintOutsideValue(token.type))
              /\ (token.type = Space => token.suggest = SuggestOptions)
              /\ (token.type = OptionName => token.suggest = SuggestNone)
              /\ (token.type = MissingOptionValue =>
                    \E n \in DOMAIN options : token.suggest = options[n])
      ]_vars

\* A parse that produced an OptionName token without the option, then a
\* value token with it, then the Space token that ended the value, with
\* 'options'; and one that produced a MissingOptionValue token.
C18_Witness ==
    /\ Done
    /\ \E k \in 1..(Len(tokens) - 2) :
          /\ tokens[k].type = OptionName
          /\ tokens[k].suggest = SuggestNone
          /\ tokens[k + 1].suggest \notin {SuggestNone, SuggestOptions}
          /\ tokens[k + 1].type # MissingOptionValue
          /\ tokens[k + 2].type = Space
          /\ tokens[k + 2].suggest = SuggestOptions
    /\ \E k \in 1..Len(tokens) : tokens[k].type = MissingOptionValue

-----------------------------------------------------------------------------
\* C19: a colon in bare text completes one token holding the pending text
\* and the colon.  After a non-empty name that matches a schema option it is
\* an OptionName token and the scan enters option-value mode with that
\* option, exactly when the option is multiple or has no stored value; an
\* unknown name gives InvalidOptionName and 'unknown option', an empty name
\* Invalid and 'unexpected colon character'.  An occurrence whose value was
\* missing stored nothing, so for s: s:a the second s: is accepted and a is
\* stored.
C19_ColonAfterName ==
    [][ /\ InLoop /\ ~inQuotes /\ ~inOptionValue /\ currentChar = ":" =>
            LET emits(type) ==
                    tokens' = Append(tokens,
                                     [type |-> type,
                                      content |-> Append(currentTokenText, ":"),
                                      suggest |-> SuggestNone])
                raises(text) ==
                    raised' = Append(raised, [position |-> i, text |-> text])
            IN  /\ result' = result
                /\ currentValue' = <<>>
                /\ IF currentValue = <<>>
                   THEN /\ emits(Invalid)
                        /\ raises("unexpected colon character")
                        /\ ~inOptionValue'
                   ELSE IF currentValue \notin DOMAIN options
                   THEN /\ emits(InvalidOptionName)
                        /\ raises("unknown option")
                        /\ ~inOptionValue'
                   ELSE LET option == options[currentValue]
                        IN  /\ inOptionValue' <=>
                                 \/ option.multiple
                                 \/ currentValue \notin DOMAIN result.options
                            /\ inOptionValue' =>
                                 /\ emits(OptionName)
                                 /\ currentOption' = option
                                 /\ raised' = raised
        /\ pc' = "done" /\ str = <<"s", ":", " ", "s", ":", "a">>
              /\ ~options[<<"s">>].multiple =>
              /\ result'.options = (<<"s">> :> [value |-> JSString(<<"a">>)])
              /\ TokenTypes(tokens') =
                   <<OptionName, MissingOptionValue, Space, OptionName, Text>>
      ]_vars

\* A non-multiple option whose first occurrence had no value or a rejected
\* one was named again, accepted, and given a stored value.
C19_Witness ==
    /\ Done
    /\ \E j \in 1..Len(tokens) : \E k \in (j + 1)..Len(tokens) :
          LET option == tokens[j].suggest
          IN  /\ tokens[j].type \in {MissingOptionValue, Invalid}
              /\ option \notin {SuggestNone, SuggestOptions}
              /\ ~option.multiple
              /\ tokens[k].type = OptionName
              /\ tokens[k].content = Append(option.name, ":")
              /\ option.name \in DOMAIN result.options

-----------------------------------------------------------------------------
\* C20: completing an option value that is empty (the option name was
\* followed by whitespace, by the end of the input or by an empty quoted
\* string) emits a MissingOptionValue token carrying the option, stores
\* nothing, clears the matched option, leaves option-value mode, and leaves
\* the parse with an error.
C20_MissingValueReportsError ==
    [][ CompletesValue /\ currentValue = <<>> =>
          /\ ValueToken.type = MissingOptionValue
          /\ ValueToken.suggest = currentOption
          /\ result' = result
          /\ currentOption' = null
          /\ ~inOptionValue'
          /\ error' # null
      ]_vars

-----------------------------------------------------------------------------
(* The candidates of a handling.  handled is the most recent handling that *)
(* ended; when it did not fail, its token is the token under the collapsed *)
(* caret (null when there is none) and its entries are the candidate list. *)

Finished == handled # null /\ ~handled.failed

\* The hint of the token under the caret is an option of the given type.
HintIs(type) ==
    /\ Finished
    /\ handled.token # null
    /\ handled.token.suggest \notin {SuggestOptions, SuggestNone}
    /\ handled.token.suggest.type = type

IsPrefix(prefix, s) ==
    /\ Len(prefix) <= Len(s)
    /\ \A k \in 1..Len(prefix) : prefix[k] = s[k]

\* C12: when the token under the collapsed caret has a Boolean option as its
\* hint, the candidates are exactly yes and no, in that order, and they are
\* the entries of the autocomplete state set for that token.
C12_BooleanCandidates ==
    HintIs("boolean") =>
        /\ handled.entries =
             << [name |-> <<"y", "e", "s">>], [name |-> <<"n", "o">>] >>
        /\ autocomplete # null
        /\ autocomplete.entries = handled.entries
        /\ autocomplete.token = handled.token
        /\ autocomplete.selection = 0

\* A token with a Boolean hint whose text starts neither yes nor no, under a
\* schema that declares the Boolean option last, got both candidates.
C12_Witness ==
    /\ HintIs("boolean")
    /\ handled.token.content = <<"a">>
    /\ config[Len(config)].type = "boolean"
    /\ Len(handled.entries) = 2

-----------------------------------------------------------------------------
\* The terms of choices that start with content, in the order of choices.
RECURSIVE StartingWith(_, _)
StartingWith(choices, content) ==
    IF choices = <<>> THEN <<>>
    ELSE (IF IsPrefix(content, Head(choices)) THEN <<Head(choices)>> ELSE <<>>)
             \o StartingWith(Tail(choices), content)

\* C13: when the token under the collapsed caret has an Enum option as its
\* hint, the candidates are exactly the choices of that option that start
\* with the token's text, in the order the option declares them.
C13_EnumCandidates ==
    HintIs("enum") =>
        LET expected == StartingWith(handled.token.suggest.options,
                                     handled.token.content)
        IN  /\ Len(handled.entries) = Len(expected)
            /\ \A k \in 1..Len(expected) :
                  handled.entries[k] = [name |-> expected[k]]

\* The token's text selected the first and the third of three declared
\* choices.
C13_Witness ==
    /\ HintIs("enum")
    /\ handled.token.content = <<"a">>
    /\ handled.entries = << [name |-> <<"a", "b">>], [name |-> <<"a">>] >>
    /\ Len(handled.token.suggest.options) = 3

-----------------------------------------------------------------------------
\* The options of cfg whose name or title starts with content, in order.
RECURSIVE Offered(_, _)
Offered(cfg, content) ==
    IF cfg = <<>> THEN <<>>
    ELSE LET option == Head(cfg)
             offer == \/ IsPrefix(content, option.name)
                      \/ /\ "title" \in DOMAIN option
                         /\ IsPrefix(content, option.title)
         IN  (IF offer THEN <<option>> ELSE <<>>)
                 \o Offered(Tail(cfg), content)

\* C14: when the token under the collapsed caret has the hint 'options',
\* the candidates are, in schema order, one candidate name + ':' with the
\* title as description for every schema option whose name or title starts
\* with the token's text, and none for any other option; a token with the
\* hint 'none' has no candidates.
C14_OptionCandidates ==
    Finished /\ handled.token # null =>
        /\ handled.token.suggest = SuggestOptions =>
              LET expected == Offered(config, handled.token.content)
              IN  /\ Len(handled.entries) = Len(expected)
                  /\ \A k \in 1..Len(expected) :
                        /\ handled.entries[k].name =
                             expected[k].name \o <<":">>
                        /\ IF "title" \in DOMAIN expected[k]
                           THEN handled.entries[k].description =
                                  expected[k].title
                           ELSE "description" \notin DOMAIN handled.entries[k]
        /\ handled.token.suggest = SuggestNone =>
              /\ handled.entries = <<>>
              /\ autocomplete = null

\* The token's text matched one option by its name and another by its title
\* only, and both were offered in the order of the schema.
C14_Witness ==
    /\ Finished /\ handled.token # null
    /\ handled.token.suggest = SuggestOptions
    /\ handled.token.content = <<"b">>
    /\ handled.entries =
         << [name |-> <<"b", ":">>],
            [name |-> <<"e", ":">>, description |-> <<"b", "e">>] >>

-----------------------------------------------------------------------------
\* C15: a handling that ends invokes at most one callback; onChange only when
\* the parse has no error, with the result; onError only when the parse has
\* an error, with that error, which is not null; and the callback that fits
\* the outcome is invoked whenever the caller provided it.
C15_OneCallback ==
    Finished =>
        LET calls == handled.calls
            parsed == handled.result
        IN  /\ Len(calls) <= 1
            /\ \A k \in 1..Len(calls) :
                  /\ calls[k].callback = "onChange" =>
                        /\ parsed.error = null
                        /\ calls[k].argument = parsed.result
                  /\ calls[k].callback = "onError" =>
                        /\ parsed.error # null
                        /\ calls[k].argument = parsed.error
            /\ parsed.error = null /\ props.onChange =>
                  Len(calls) = 1 /\ calls[1].callback = "onChange"
            /\ parsed.error # null /\ props.onError =>
                  Len(calls) = 1 /\ calls[1].callback = "onError"

-----------------------------------------------------------------------------
\* C16: when the provider called by a handling throws, or the promise it
\* returned is rejected, the handling ends with no candidates: the
\* autocomplete state is null, the listener is installed, and the caller is
\* notified when it provided both callbacks.
C16_ProviderFailureIsEmptyList ==
    [][ handled' # handled /\ handled' # null /\ handled'.failed =>
          /\ autocomplete' = null
          /\ installed'
          /\ handled'.entries = <<>>
          /\ (props.onChange /\ props.onError => Len(handled'.calls) = 1)
      ]_vars

-----------------------------------------------------------------------------
\* The scan is in bare text.
InBareText == pc = "scan" /\ ~inQuotes /\ ~inOptionValue

\* A bare word was interrupted: the decoded accumulator holds characters
\* that the pending token text does not.
Interrupted ==
    InBareText /\ currentValue # <<>> /\ currentValue # currentTokenText

\* C21: a stray quote or a backslash in a bare word appends nothing to
\* result.text and keeps the decoded accumulator; word characters after it
\* accumulate onto the accumulator; and the interrupted word is not dropped:
\* whitespace, a colon or the end of the input after it appends the
\* accumulator to result.text.  For a"n the only term is an.
C21_InterruptedWordKept ==
    [][ LET interrupts ==
                /\ InLoop /\ InBareText /\ currentValue # <<>>
                /\ (currentChar = "\\"
                      \/ (currentChar = "\"" /\ currentTokenText # <<>>))
            continues ==
                /\ InLoop /\ Interrupted
                /\ ~IsWhitespace(currentChar)
                /\ currentChar \notin {"\"", "\\", ":"}
            ends ==
                /\ Interrupted
                /\ (AtEnd \/ IsWhitespace(currentChar) \/ currentChar = ":")
        IN  /\ interrupts =>
                  (result' = result /\ currentValue' = currentValue)
            /\ continues =>
                  (/\ result' = result
                   /\ currentValue' = Append(currentValue, currentChar))
            /\ ends => result'.text = Append(result.text, currentValue)
            /\ (pc' = "done" /\ str = <<"a", "\"", "n">>) =>
                  result'.text = << <<"a", "n">> >>
      ]_vars

-----------------------------------------------------------------------------
(* Overlapping handlings.  newest tells how far the most recently started  *)
(* handling has come; while it is "finished" and no newer handling starts, *)
(* the outcome of that handling is the autocomplete state it set and the   *)
(* notification it made.                                                   *)

\* Two autocomplete states show the same candidates for the same token.
SameCandidates(before, after) ==
    IF before = null \/ after = null THEN before = after
    ELSE after.entries = before.entries /\ after.token = before.token

\* A handling ends in this step and notifies the caller or sets the
\* autocomplete state: it did not end by a failure of its provider.
Delivers == handled' # handled /\ handled' # null /\ ~handled'.failed

\* C22: a handling started for an earlier input never overwrites the outcome
\* of a more recent one: once the most recently started handling has
\* finished, no other handling delivers a notification or changes the
\* candidates until a newer handling starts, so that after all pending
\* provider calls have completed the autocomplete state and the last
\* notification are those of the most recently started handling; and a
\* handling calls the provider at most once.
C22_NewestOutcomeStands ==
    [][ /\ newest = "finished" /\ newest' = "finished" =>
              /\ ~Delivers
              /\ SameCandidates(autocomplete, autocomplete')
        /\ handled' # null => handled'.providerCalls <= 1
        /\ \A k \in DOMAIN pending' : pending'[k].providerCalls <= 1
      ]_vars

-----------------------------------------------------------------------------
(* The code runs a handler to its end or to its await once it has started, *)
(* and a promise that is awaited is settled in the end; the user and the   *)
(* keyboard owe nothing.                                                   *)
SpecSuggestFair ==
    /\ SpecSuggest
    /\ WF_vars(Next)
    /\ WF_vars(InputCompletes \/ InputProvided \/ InputThrows \/ InputAwaits)
    /\ WF_vars(ProviderResolves \/ ProviderRejects)

\* The provider of the most recently started handling failed, or a
\* handling has just ended by such a failure.
Failed == newest = "failed" \/ (handled # null /\ handled.failed)

\* The text of the input is the text of the most recently started
\* handling, nothing was typed since, and that handling has set the
\* autocomplete state and notified the caller (lines 534-550).
Delivered ==
    /\ Quiet
    /\ textContent = textOf(tokens)
    /\ newest = "finished"

\* A handler is running or a handling awaits its provider.
Busy == ~Quiet \/ pending # <<>>

\* C23: every edit of the input is eventually parsed and notified, also one
\* made while the listener is removed and a handling awaits its provider:
\* when the caller provided both callbacks, whenever the user has edited the
\* input and the handlers have come to rest, the text of the input is the
\* text that was passed to parse, with its outcome delivered through
\* onChange or onError, unless a provider fails.
C23_LastEditDelivered ==
    []<>(\/ ~(props.onChange /\ props.onError)
         \/ typed = 0
         \/ Busy
         \/ Delivered
         \/ Failed)
====
